---------------------------- MODULE Spec2Model ----------------------------
(***************************************************************************)
(* A model of advanced-vector/vector.h: RawMemory<T> (an owned block of    *)
(* uninitialized slots) and Vector<T> (a RawMemory plus a logical size).   *)
(*                                                                         *)
(* The heap is a finite set of blocks.  A block is a sequence of slots; a  *)
(* slot holds no object (U), a moved-from object (MV), a value-initialized *)
(* object (DV) or an object with a value of Vals.  The program holds     *)
(* one Vector object, vec; each public member function is one action, and  *)
(* a member function that takes a second vector is called with a vector    *)
(* `other` the caller has built for the call and destroys after it.        *)
(* The element type T is a parameter of a behaviour: `policy`              *)
(* says which branch of the `if constexpr` on                              *)
(* is_nothrow_move_constructible_v<T> || !is_copy_constructible_v<T> the   *)
(* build took.  T's default constructor, its copy constructor, its copy    *)
(* assignment and the constructor of a newly emplaced element may throw:   *)
(* every operation takes the number k of the construction that throws      *)
(* (0: none).  Moves do not throw in the model.                            *)
(*                                                                         *)
(* Slots are numbered from 0 as in the source; slot i of a block is        *)
(* cells[i + 1].                                                           *)
(***************************************************************************)
EXTENDS Integers, Sequences, FiniteSets

\* ---- bounds of the model ----
MaxCap == 4       \* no block of more than MaxCap slots is allocated
MaxOther == 2     \* a second operand the caller builds has at most MaxOther slots
NBlocks == 3      \* block addresses 1..NBlocks (vec, other and one new_data)

\* ---- encodings ----
NullPtr == 0      \* nullptr
U == -2           \* a slot holding no object (uninitialized memory)
MV == -1          \* an object that has been moved from
DV == 0           \* T(): a value-initialized object

Vals == {1, 2}    \* the values a caller stores
Blocks == 1..NBlocks

VARIABLES heap, vec, policy, ub, last, pushed, rsv, raw, req

vars == <<heap, vec, policy, ub, last, pushed, rsv, raw, req>>

\* ------------------------------------------------------------------------
\* Memory: slots, blocks, operator new / operator delete
\* ------------------------------------------------------------------------

Live(c) == c # U

\* the slots of the block p points to
Cells(h, p) == IF p = NullPtr THEN <<>> ELSE h[p].cells

\* slots [first, first + n) all lie inside the block and hold objects
RangeLive(c, first, n) ==
    /\ first >= 0
    /\ n >= 0
    /\ first + n <= Len(c)
    /\ \A j \in first..(first + n - 1) : Live(c[j + 1])

\* slots [first, first + n) all lie inside the block
RangeIn(c, first, n) == first >= 0 /\ n >= 0 /\ first + n <= Len(c)

LiveCount(h, p) == Cardinality({j \in 1..Len(Cells(h, p)) : Live(Cells(h, p)[j])})

SetCells(h, p, c) == [h EXCEPT ![p].cells = c]

FreeBlock(h) == CHOOSE b \in Blocks : ~h[b].alloc /\ \A x \in Blocks : x < b => h[x].alloc

\* RawMemory::Allocate: n slots of raw memory, nullptr for n = 0
Allocate(h, n) ==
    IF n # 0
    THEN LET b == FreeBlock(h)
         IN [h |-> [h EXCEPT ![b] = [alloc |-> TRUE, cells |-> [j \in 1..n |-> U]]],
             p |-> b]
    ELSE [h |-> h, p |-> NullPtr]

\* RawMemory::Deallocate: operator delete; no destructor runs
Deallocate(h, p) ==
    IF p = NullPtr THEN h ELSE [h EXCEPT ![p] = [alloc |-> FALSE, cells |-> <<>>]]

\* RawMemory(std::size_t capacity)
RawMemoryOfCapacity(h, capacity) ==
    LET a == Allocate(h, capacity)
    IN [h |-> a.h, data |-> [buffer |-> a.p, capacity |-> capacity]]

EmptyRawMemory == [buffer |-> NullPtr, capacity |-> 0]

\* ~RawMemory
RawMemoryDtor(h, data) == Deallocate(h, data.buffer)

\* ------------------------------------------------------------------------
\* The <memory> / <algorithm> primitives the source calls, on one block's
\* slots.  k is the number of the construction in this call that throws
\* (0, or more than the call performs: none).
\* ------------------------------------------------------------------------

\* what is left of k after a call that performed n constructions
Rest(k, n) == IF k > n THEN k - n ELSE 0

\* std::construct_at(p + i, value)
ConstructAt(c, i, value) == [c EXCEPT ![i + 1] = value]

\* std::destroy_n(p + first, n)
DestroyN(c, first, n) ==
    [j \in 1..Len(c) |-> IF j - 1 \in first..(first + n - 1) THEN U ELSE c[j]]

\* std::uninitialized_copy_n(src + sfirst, n, dst + dfirst): on a throw the
\* objects this call constructed are destroyed
UninitializedCopyN(src, sfirst, n, dst, dfirst, k) ==
    IF k \in 1..n
    THEN [cells |-> DestroyN(dst, dfirst, k - 1), threw |-> TRUE]
    ELSE [cells |-> [j \in 1..Len(dst) |->
                        IF j - 1 \in dfirst..(dfirst + n - 1)
                        THEN src[sfirst + (j - 1 - dfirst) + 1]
                        ELSE dst[j]],
          threw |-> FALSE]

\* std::uninitialized_move_n(src + sfirst, n, dst + dfirst): the destination
UninitializedMoveNDst(src, sfirst, n, dst, dfirst) ==
    [j \in 1..Len(dst) |->
        IF j - 1 \in dfirst..(dfirst + n - 1)
        THEN src[sfirst + (j - 1 - dfirst) + 1]
        ELSE dst[j]]

\* std::uninitialized_move_n: the source, whose objects are left moved-from
UninitializedMoveNSrc(src, sfirst, n) ==
    [j \in 1..Len(src) |-> IF j - 1 \in sfirst..(sfirst + n - 1) THEN MV ELSE src[j]]

\* std::uninitialized_value_construct_n that stops one object short of n
UninitializedValueConstructNOneShort(c, first, n, k) ==
    IF k \in 1..(n - 1)
    THEN [cells |-> DestroyN(c, first, k - 1), threw |-> TRUE]
    ELSE [cells |-> [j \in 1..Len(c) |->
                        IF j - 1 \in first..(first + n - 2) THEN DV ELSE c[j]],
          threw |-> FALSE]

\* std::uninitialized_value_construct_n(p + first, n)
UninitializedValueConstructN(c, first, n, k) ==
    IF k \in 1..n
    THEN [cells |-> DestroyN(c, first, k - 1), threw |-> TRUE]
    ELSE [cells |-> [j \in 1..Len(c) |->
                        IF j - 1 \in first..(first + n - 1) THEN DV ELSE c[j]],
          threw |-> FALSE]

\* *(p + to) = std::move(*(p + from)), and construct_at(p + to,
\* std::move(*(p + from))): the target takes the value, the source is left
\* moved-from
MoveAssignSlot(c, from, to) ==
    IF from = to THEN c ELSE [c EXCEPT ![to + 1] = c[from + 1], ![from + 1] = MV]

\* std::ranges::move_backward(p + first, p + lst, p + dlast)
RECURSIVE MoveBackward(_, _, _, _)
MoveBackward(c, first, lst, dlast) ==
    IF first >= lst THEN c
    ELSE MoveBackward(MoveAssignSlot(c, lst - 1, dlast - 1), first, lst - 1, dlast - 1)

\* std::ranges::move(p + first, p + lst, p + dfirst)
RECURSIVE Move(_, _, _, _)
Move(c, first, lst, dfirst) ==
    IF first >= lst THEN c
    ELSE Move(MoveAssignSlot(c, first, dfirst), first + 1, lst, dfirst + 1)

\* std::ranges::copy that stops one element short of src + n
RangesCopyOneShort(src, n, dst, k) ==
    LET done == IF k \in 1..(n - 1) THEN k - 1 ELSE n - 1
    IN [cells |-> [j \in 1..Len(dst) |-> IF j <= done THEN src[j] ELSE dst[j]],
        threw |-> k \in 1..(n - 1)]

\* std::ranges::copy(src + 0, src + n, dst + 0): copy assignment, slot by
\* slot; a throw at the k-th leaves the first k - 1 assigned
RangesCopy(src, n, dst, k) ==
    LET done == IF k \in 1..n THEN k - 1 ELSE n
    IN [cells |-> [j \in 1..Len(dst) |-> IF j <= done THEN src[j] ELSE dst[j]],
        threw |-> k \in 1..n]

Min(x, y) == IF x <= y THEN x ELSE y


\* ------------------------------------------------------------------------
\* Vector<T>: one object is [alive, data: RawMemory, size].  A member
\* function is an operator from the heap and the object to a result:
\*   h, vc    the heap and the object afterwards
\*   threw    "none", or which construction threw: "new" (the emplaced
\*            element), "copy", "default", "assign"
\*   ub       the call has undefined behaviour: it reads a slot that holds
\*            no object or touches a slot outside the block
\*   leaked   objects still alive in a block at the moment it was deallocated
\*   realloc  the vector's storage was replaced
\*   old      the elements of the replaced storage as destroy_n found them
\* ------------------------------------------------------------------------

Done(h, vc, leaked, realloc) ==
    [h |-> h, vc |-> vc, threw |-> "none", ub |-> FALSE,
     leaked |-> leaked, realloc |-> realloc, old |-> <<>>]

Thrown(h, vc, what, leaked) ==
    [h |-> h, vc |-> vc, threw |-> what, ub |-> FALSE,
     leaked |-> leaked, realloc |-> FALSE, old |-> <<>>]

Undefined(h, vc) ==
    [h |-> h, vc |-> vc, threw |-> "none", ub |-> TRUE,
     leaked |-> 0, realloc |-> FALSE, old |-> <<>>]

\* the elements operator[] can read: slots [0, size)
Elems(h, vc) ==
    LET c == Cells(h, vc.data.buffer)
    IN [j \in 1..vc.size |-> IF j <= Len(c) THEN c[j] ELSE U]

\* Vector::Capacity, Vector::Size
Capacity(vc) == vc.data.capacity
Size(vc) == vc.size

\* the argument of PushBack / Insert / Emplace: a value of its own, or a
\* reference to element x of the vector itself
ArgValue(c, arg) == IF arg.ref THEN c[arg.x + 1] ELSE arg.x

\* new_data goes out of scope holding block p: ~RawMemory, no destroy_n
ReleaseNew(h, p) == [h |-> Deallocate(h, p), leaked |-> LiveCount(h, p)]

\* the tail of a growth path with a Swap that exchanges buffer_ but leaves
\* capacity_ as it was
DestroyOldAndSwapKeepsCapacity(h, vc, np, ncap) ==
    LET old == vc.data.buffer
        h1 == IF old = NullPtr THEN h
              ELSE SetCells(h, old, DestroyN(Cells(h, old), 0, vc.size))
        rel == ReleaseNew(h1, old)
    IN [h |-> rel.h,
        vc |-> [vc EXCEPT !.data = [buffer |-> np, capacity |-> vc.data.capacity]],
        leaked |-> rel.leaked,
        old |-> [j \in 1..vc.size |-> Cells(h, old)[j]]]

\* the common tail of the three growth paths (lines 218-219, 242-243, 306-307):
\* destroy the old elements, swap data_ with new_data, new_data is released
DestroyOldAndSwap(h, vc, np, ncap) ==
    LET old == vc.data.buffer
        h1 == IF old = NullPtr THEN h
              ELSE SetCells(h, old, DestroyN(Cells(h, old), 0, vc.size))
        rel == ReleaseNew(h1, old)
    IN [h |-> rel.h,
        vc |-> [vc EXCEPT !.data = [buffer |-> np, capacity |-> ncap]],
        leaked |-> rel.leaked,
        old |-> [j \in 1..vc.size |-> Cells(h, old)[j]]]

\* a transfer that copies whatever the `if constexpr` says
TransferAlwaysCopies(h, old, sfirst, n, np, dfirst, k) ==
    IF n = 0 THEN [h |-> h, threw |-> FALSE]
    ELSE LET r == UninitializedCopyN(Cells(h, old), sfirst, n, Cells(h, np), dfirst, k)
         IN [h |-> SetCells(h, np, r.cells), threw |-> r.threw]

\* a transfer that leaves the last of the n old elements behind
TransferOneShort(h, old, sfirst, n, np, dfirst, k) ==
    IF n <= 1 THEN [h |-> h, threw |-> FALSE]
    ELSE IF policy = "move"
    THEN LET h1 == SetCells(h, np, UninitializedMoveNDst(Cells(h, old), sfirst, n - 1,
                                                        Cells(h, np), dfirst))
         IN [h |-> SetCells(h1, old, UninitializedMoveNSrc(Cells(h, old), sfirst, n - 1)),
             threw |-> FALSE]
    ELSE LET r == UninitializedCopyN(Cells(h, old), sfirst, n - 1, Cells(h, np), dfirst, k)
         IN [h |-> SetCells(h, np, r.cells), threw |-> r.threw]

\* the transfer of n old elements [sfirst, sfirst + n) into the new block at
\* dfirst, by the policy of the `if constexpr`
Transfer(h, old, sfirst, n, np, dfirst, k) ==
    IF n = 0 THEN [h |-> h, threw |-> FALSE]
    ELSE IF policy = "move"
    THEN LET h1 == SetCells(h, np, UninitializedMoveNDst(Cells(h, old), sfirst, n,
                                                        Cells(h, np), dfirst))
         IN [h |-> SetCells(h1, old, UninitializedMoveNSrc(Cells(h, old), sfirst, n)),
             threw |-> FALSE]
    ELSE LET r == UninitializedCopyN(Cells(h, old), sfirst, n, Cells(h, np), dfirst, k)
         IN [h |-> SetCells(h, np, r.cells), threw |-> r.threw]

\* the constructions of a transfer that can throw
TransferSteps(n) == IF policy = "move" THEN 0 ELSE n

\* the reallocation of Reserve, destroying each old element once it is copied
ReserveGrowDestroysAsItGoes(h, vc, capacity, k) ==
    IF ~RangeLive(Cells(h, vc.data.buffer), 0, vc.size) THEN Undefined(h, vc)
    ELSE LET nd == RawMemoryOfCapacity(h, capacity)
             np == nd.data.buffer
             old == vc.data.buffer
             t == Transfer(nd.h, old, 0, vc.size, np, 0, k)
         IN IF t.threw
            THEN LET rel == ReleaseNew(t.h, np)
                 IN Thrown(SetCells(rel.h, old, DestroyN(Cells(rel.h, old), 0, k - 1)),
                           vc, "copy", rel.leaked)
            ELSE LET f == DestroyOldAndSwap(t.h, vc, np, capacity)
                 IN Done(f.h, f.vc, f.leaked, TRUE)

\* Vector::Reserve past the early return: the reallocation
ReserveGrow(h, vc, capacity, k) ==
    IF ~RangeLive(Cells(h, vc.data.buffer), 0, vc.size) THEN Undefined(h, vc)
    ELSE LET nd == RawMemoryOfCapacity(h, capacity)
             np == nd.data.buffer
             t == Transfer(nd.h, vc.data.buffer, 0, vc.size, np, 0, k)
         IN IF t.threw
            THEN LET rel == ReleaseNew(t.h, np)
                 IN Thrown(rel.h, vc, "copy", rel.leaked)
            ELSE LET f == DestroyOldAndSwap(t.h, vc, np, capacity)
                 IN [Done(f.h, f.vc, f.leaked, TRUE) EXCEPT !.old = f.old]

\* Reserve with an early return that also takes capacity = Capacity() + 1
ReserveOneLate(h, vc, capacity, k) ==
    IF capacity <= vc.data.capacity + 1 THEN Done(h, vc, 0, FALSE)
    ELSE ReserveGrow(h, vc, capacity, k)

\* Vector::Reserve
Reserve(h, vc, capacity, k) ==
    IF capacity <= vc.data.capacity THEN Done(h, vc, 0, FALSE)
    ELSE ReserveGrow(h, vc, capacity, k)

\* a growth by one slot instead of a doubling
GrownCapacityByOne(vc) == vc.size + 1

\* the capacity ReallocateAndEmbed asks for (line 294)
GrownCapacity(vc) == IF vc.size = 0 THEN 1 ELSE vc.size * 2

\* Vector::ReallocateAndEmbed
ReallocateAndEmbed(h, vc, distance, arg, k) ==
    LET nd == RawMemoryOfCapacity(h, GrownCapacity(vc))
        np == nd.data.buffer
        old == vc.data.buffer
    IN IF k = 1
       THEN Thrown(ReleaseNew(nd.h, np).h, vc, "new", 0)
       ELSE LET h1 == SetCells(nd.h, np,
                         ConstructAt(Cells(nd.h, np), distance,
                                     ArgValue(Cells(nd.h, old), arg)))
            IN IF ~RangeLive(Cells(h, old), 0, vc.size) THEN Undefined(h, vc)
               ELSE LET t1 == Transfer(h1, old, 0, distance, np, 0, Rest(k, 1))
                        t2 == Transfer(t1.h, old, distance, vc.size - distance, np,
                                       distance + 1,
                                       Rest(Rest(k, 1), TransferSteps(distance)))
                    IN IF t1.threw
                       THEN LET rel == ReleaseNew(t1.h, np)
                            IN Thrown(rel.h, vc, "copy", rel.leaked)
                       ELSE IF t2.threw
                       THEN LET rel == ReleaseNew(t2.h, np)
                            IN Thrown(rel.h, vc, "copy", rel.leaked)
                       ELSE LET f == DestroyOldAndSwap(t2.h, vc, np, nd.data.capacity)
                            IN [Done(f.h, f.vc, f.leaked, TRUE) EXCEPT !.old = f.old]

\* Embed without the temporary: the new value is read after the shift
EmbedNoTemporary(h, vc, distance, arg, k) ==
    LET p == vc.data.buffer
        c == Cells(h, p)
    IN IF ~RangeIn(c, vc.size, 1) THEN Undefined(h, vc)
       ELSE IF distance = vc.size
       THEN IF k = 1 THEN Thrown(h, vc, "new", 0)
            ELSE Done(SetCells(h, p, ConstructAt(c, vc.size, ArgValue(c, arg))),
                      vc, 0, FALSE)
       ELSE IF k = 1 THEN Thrown(h, vc, "new", 0)
       ELSE IF ~RangeLive(c, distance, vc.size - distance) THEN Undefined(h, vc)
       ELSE LET c1 == MoveAssignSlot(c, vc.size - 1, vc.size)
                c2 == MoveBackward(c1, distance, vc.size - 1, vc.size)
                c3 == [c2 EXCEPT ![distance + 1] = ArgValue(c2, arg)]
            IN Done(SetCells(h, p, c3), vc, 0, FALSE)

\* Vector::Embed
Embed(h, vc, distance, arg, k) ==
    LET p == vc.data.buffer
        c == Cells(h, p)
    IN IF ~RangeIn(c, vc.size, 1) THEN Undefined(h, vc)
       ELSE IF distance = vc.size
       THEN IF k = 1 THEN Thrown(h, vc, "new", 0)
            ELSE Done(SetCells(h, p, ConstructAt(c, vc.size, ArgValue(c, arg))),
                      vc, 0, FALSE)
       ELSE IF k = 1 THEN Thrown(h, vc, "new", 0)
       ELSE IF ~RangeLive(c, distance, vc.size - distance) THEN Undefined(h, vc)
       ELSE LET tmp == ArgValue(c, arg)
                c1 == MoveAssignSlot(c, vc.size - 1, vc.size)
                c2 == MoveBackward(c1, distance, vc.size - 1, vc.size)
                c3 == [c2 EXCEPT ![distance + 1] = tmp]
            IN Done(SetCells(h, p, c3), vc, 0, FALSE)

\* Emplace that counts the new element whether or not it was constructed
EmplaceCountsFirst(h, vc, distance, arg, k) ==
    LET r == IF vc.size = vc.data.capacity
             THEN ReallocateAndEmbed(h, vc, distance, arg, k)
             ELSE Embed(h, vc, distance, arg, k)
    IN IF r.ub THEN r
       ELSE [r EXCEPT !.vc.size = @ + 1]

\* Vector::Emplace
Emplace(h, vc, distance, arg, k) ==
    LET r == IF vc.size = vc.data.capacity
             THEN ReallocateAndEmbed(h, vc, distance, arg, k)
             ELSE Embed(h, vc, distance, arg, k)
    IN IF r.ub \/ r.threw # "none" THEN r
       ELSE [r EXCEPT !.vc.size = @ + 1]

\* Vector::EmplaceBack: Emplace(cend(), ...)
EmplaceBack(h, vc, arg, k) == Emplace(h, vc, vc.size, arg, k)

\* Vector::PushBack
PushBack(h, vc, arg, k) == EmplaceBack(h, vc, arg, k)

\* Vector::Insert
Insert(h, vc, distance, arg, k) == Emplace(h, vc, distance, arg, k)

\* Erase whose move starts at the erased element instead of the one after it
EraseMovesFromPos(h, vc, distance) ==
    LET p == vc.data.buffer
        c == Cells(h, p)
    IN IF ~RangeLive(c, distance, vc.size - distance) THEN Undefined(h, vc)
       ELSE LET c1 == Move(c, distance, vc.size, distance)
                c2 == DestroyN(c1, vc.size - 1, 1)
            IN Done(SetCells(h, p, c2), [vc EXCEPT !.size = @ - 1], 0, FALSE)

\* Vector::Erase, at a valid position (distance < size)
Erase(h, vc, distance) ==
    LET p == vc.data.buffer
        c == Cells(h, p)
    IN IF ~RangeLive(c, distance, vc.size - distance) THEN Undefined(h, vc)
       ELSE LET c1 == Move(c, distance + 1, vc.size, distance)
                c2 == DestroyN(c1, vc.size - 1, 1)
            IN Done(SetCells(h, p, c2), [vc EXCEPT !.size = @ - 1], 0, FALSE)

\* Vector::PopBack, on a vector that is not empty
PopBack(h, vc) ==
    LET p == vc.data.buffer
        c == Cells(h, p)
    IN IF ~RangeLive(c, vc.size - 1, 1) THEN Undefined(h, vc)
       ELSE Done(SetCells(h, p, DestroyN(c, vc.size - 1, 1)),
                 [vc EXCEPT !.size = @ - 1], 0, FALSE)

\* Vector::Resize
Resize(h, vc, new_size, k) ==
    LET p == vc.data.buffer
        c == Cells(h, p)
    IN IF new_size <= vc.data.capacity
       THEN IF new_size < vc.size
            THEN IF ~RangeLive(c, new_size, vc.size - new_size) THEN Undefined(h, vc)
                 ELSE Done(SetCells(h, p, DestroyN(c, new_size, vc.size - new_size)),
                           [vc EXCEPT !.size = new_size], 0, FALSE)
            ELSE IF new_size = vc.size THEN Done(h, vc, 0, FALSE)
            ELSE LET r == UninitializedValueConstructN(c, vc.size, new_size - vc.size, k)
                 IN IF r.threw THEN Thrown(SetCells(h, p, r.cells), vc, "default", 0)
                    ELSE Done(SetCells(h, p, r.cells),
                              [vc EXCEPT !.size = new_size], 0, FALSE)
       ELSE IF ~RangeLive(c, 0, vc.size) THEN Undefined(h, vc)
       ELSE LET nd == RawMemoryOfCapacity(h, new_size)
                np == nd.data.buffer
                t == Transfer(nd.h, p, 0, vc.size, np, 0, k)
            IN IF t.threw
               THEN LET rel == ReleaseNew(t.h, np)
                    IN Thrown(rel.h, vc, "copy", rel.leaked)
               ELSE LET r == UninitializedValueConstructN(Cells(t.h, np), vc.size,
                                 new_size - vc.size, Rest(k, TransferSteps(vc.size)))
                    IN IF r.threw
                       THEN LET rel == ReleaseNew(SetCells(t.h, np, r.cells), np)
                            IN Thrown(rel.h, vc, "default", rel.leaked)
                       ELSE LET f == DestroyOldAndSwap(SetCells(t.h, np, r.cells),
                                                       vc, np, new_size)
                            IN [Done(f.h, [f.vc EXCEPT !.size = new_size],
                                     f.leaked, TRUE) EXCEPT !.old = f.old]

\* ------------------------------------------------------------------------
\* RawMemory's and Vector's special member functions.  Those that take a
\* second vector work on the pair vs = [this, other] of Vector objects; t
\* and o name the two operands ("this" or "other": t = o is a call with the
\* object itself), and their result's vc is the pair afterwards.
\* ------------------------------------------------------------------------

\* a move constructor that copies the pointer and leaves the source as it was
RawMemoryMoveCtorKeepsSource(other) == [self |-> other, other |-> other]

\* RawMemory(RawMemory&& other)
RawMemoryMoveCtor(other) == [self |-> other, other |-> EmptyRawMemory]

\* RawMemory::Swap
RawMemorySwap(this, other) == [this |-> other, other |-> this]

\* RawMemory::operator=(RawMemory&&); same: this == &other
RawMemoryMoveAssign(h, this, other, same) ==
    IF same THEN [h |-> h, this |-> this, other |-> other, leaked |-> 0]
    ELSE LET mc == RawMemoryMoveCtor(other)
             sw == RawMemorySwap(this, mc.self)
             rel == ReleaseNew(h, sw.other.buffer)
         IN [h |-> rel.h, this |-> sw.this, other |-> mc.other, leaked |-> rel.leaked]

DeadVector == [alive |-> FALSE, data |-> EmptyRawMemory, size |-> 0]

\* Vector() noexcept = default
DefaultCtor == [alive |-> TRUE, data |-> EmptyRawMemory, size |-> 0]

\* explicit Vector(std::size_t size)
SizedCtor(h, size, k) ==
    LET nd == RawMemoryOfCapacity(h, size)
        np == nd.data.buffer
        r == UninitializedValueConstructN(Cells(nd.h, np), 0, size, k)
    IN IF r.threw
       THEN LET rel == ReleaseNew(SetCells(nd.h, np, r.cells), np)
            IN Thrown(rel.h, DeadVector, "default", rel.leaked)
       ELSE Done(IF size = 0 THEN nd.h ELSE SetCells(nd.h, np, r.cells),
                 [alive |-> TRUE, data |-> nd.data, size |-> size], 0, FALSE)

\* Vector(const Vector& other)
CopyCtor(h, other, k) ==
    IF ~RangeLive(Cells(h, other.data.buffer), 0, other.size)
    THEN Undefined(h, DeadVector)
    ELSE LET nd == RawMemoryOfCapacity(h, other.size)
             np == nd.data.buffer
             r == UninitializedCopyN(Cells(h, other.data.buffer), 0, other.size,
                                     Cells(nd.h, np), 0, k)
         IN IF r.threw
            THEN LET rel == ReleaseNew(SetCells(nd.h, np, r.cells), np)
                 IN Thrown(rel.h, DeadVector, "copy", rel.leaked)
            ELSE Done(IF other.size = 0 THEN nd.h ELSE SetCells(nd.h, np, r.cells),
                      [alive |-> TRUE, data |-> nd.data, size |-> other.size], 0, FALSE)

\* Vector(Vector&& other) noexcept
MoveCtor(h, vs, t, o) ==
    LET mc == RawMemoryMoveCtor(vs[o].data)
    IN Done(h,
            [vs EXCEPT ![t] = [alive |-> TRUE, data |-> mc.self, size |-> vs[o].size],
                       ![o] = [@ EXCEPT !.data = mc.other, !.size = 0]],
            0, FALSE)

\* ~Vector
VectorDtor(h, vc) ==
    LET p == vc.data.buffer
    IN IF ~RangeLive(Cells(h, p), 0, vc.size) THEN Undefined(h, vc)
       ELSE LET h1 == IF p = NullPtr THEN h
                      ELSE SetCells(h, p, DestroyN(Cells(h, p), 0, vc.size))
                rel == ReleaseNew(h1, p)
            IN Done(rel.h, DeadVector, rel.leaked, FALSE)

\* Vector::Swap
Swap(h, vs, t, o) ==
    LET sw == RawMemorySwap(vs[t].data, vs[o].data)
    IN Done(h,
            [x \in DOMAIN vs |->
                IF x = t THEN [vs[t] EXCEPT !.data = sw.this, !.size = vs[o].size]
                ELSE IF x = o THEN [vs[o] EXCEPT !.data = sw.other, !.size = vs[t].size]
                ELSE vs[x]],
            0, FALSE)

\* Vector::operator=(const Vector&), this and other two objects
CopyAssign(h, vs, t, o, k) ==
    LET this == vs[t]
        other == vs[o]
        src == Cells(h, other.data.buffer)
        p == this.data.buffer
        dst == Cells(h, p)
    IN IF this.data.capacity < other.size
       THEN LET temp == CopyCtor(h, other, k)
            IN IF temp.ub THEN Undefined(h, vs)
               ELSE IF temp.threw # "none" THEN Thrown(temp.h, vs, "copy", temp.leaked)
               ELSE LET gone == VectorDtor(temp.h, this)    \* temp after this->Swap(temp)
                    IN IF gone.ub THEN Undefined(h, vs)
                       ELSE Done(gone.h, [vs EXCEPT ![t] = temp.vc], gone.leaked, TRUE)
       ELSE LET m == Min(this.size, other.size)
            IN IF ~RangeLive(src, 0, other.size) \/ ~RangeLive(dst, 0, m)
               THEN Undefined(h, vs)
               ELSE LET cp == RangesCopy(src, m, dst, k)
                    IN IF cp.threw
                       THEN Thrown(IF p = NullPtr THEN h ELSE SetCells(h, p, cp.cells),
                                   vs, "assign", 0)
                       ELSE IF this.size > other.size
                       THEN IF ~RangeLive(dst, other.size, this.size - other.size)
                            THEN Undefined(h, vs)
                            ELSE Done(SetCells(h, p, DestroyN(cp.cells, other.size,
                                                              this.size - other.size)),
                                      [vs EXCEPT ![t].size = other.size], 0, FALSE)
                       ELSE LET uc == UninitializedCopyN(src, this.size,
                                          other.size - this.size, cp.cells,
                                          this.size, Rest(k, m))
                                h1 == IF p = NullPtr THEN h ELSE SetCells(h, p, uc.cells)
                            IN IF uc.threw THEN Thrown(h1, vs, "copy", 0)
                               ELSE Done(h1, [vs EXCEPT ![t].size = other.size], 0, FALSE)

\* Vector::operator=(Vector&&) noexcept
MoveAssign(h, vs, t, o) ==
    LET vs1 == [vs EXCEPT ![o].size = 0]
        ma == RawMemoryMoveAssign(h, vs1[t].data, vs1[o].data, t = o)
    IN Done(ma.h,
            IF t = o THEN vs1
            ELSE [vs1 EXCEPT ![t].data = ma.this, ![o].data = ma.other],
            ma.leaked, t # o)

\* ------------------------------------------------------------------------
\* The program: one Vector object and its caller, one call per step.
\*   last    the call that has just returned (until the caller goes on):
\*           its name, its operands and how it ended
\*   pushed  since the vector's default construction only PushBack was
\*           called on it (on), and the values those calls pushed (seq)
\*   rsv     while the caller is doing "Reserve(n), then PushBack n times":
\*           how many of the n PushBack calls are still to come (left), and
\*           whether the vector was empty when Reserve was called (empty).
\*           After Reserve(n) the caller either goes through with the n
\*           PushBack calls or goes on with any other call (Return drops rsv).
\*   raw     the RawMemory objects of a program that uses RawMemory alone
\*   req     one allocation request, in machine arithmetic
\* ------------------------------------------------------------------------

NoArg == [ref |-> FALSE, x |-> 0]
NoOther == [capacity |-> -1, elems |-> <<>>]
NoAfter == [capacity |-> -1, size |-> -1, elems |-> <<>>]

NoLast ==
    [op |-> "none", i |-> -1, n |-> -1, arg |-> NoArg, other |-> NoOther,
     after |-> NoAfter, threw |-> "none", realloc |-> FALSE, leaked |-> 0,
     old |-> <<>>]

PushedOff == [on |-> FALSE, seq |-> <<>>]
PushedNew == [on |-> TRUE, seq |-> <<>>]
RsvOff == [left |-> 0, empty |-> FALSE]

\* raw and req belong to the two programs further down, which use RawMemory
\* alone; the Vector program leaves them as they are
NoRaw == <<>>
NoReq == <<>>

\* the arguments a caller can pass for a new element
Args ==
    {[ref |-> FALSE, x |-> x] : x \in Vals}
    \cup {[ref |-> TRUE, x |-> x] :
            x \in {y \in 0..(vec.size - 1) :
                      RangeLive(Cells(heap, vec.data.buffer), y, 1)}}

\* the vectors a caller can build as the second operand of a call
SeqsUpTo(n) == UNION {[1..m -> Vals] : m \in 0..n}
Others == {o \in [capacity : 0..MaxOther, elems : SeqsUpTo(MaxOther)] :
              Len(o.elems) <= o.capacity}

\* the caller's vector `other`, built in the heap, beside vec
Operands(o) ==
    LET nd == RawMemoryOfCapacity(heap, o.capacity)
        p == nd.data.buffer
        h1 == IF p = NullPtr THEN nd.h
              ELSE SetCells(nd.h, p,
                       [j \in 1..o.capacity |->
                           IF j <= Len(o.elems) THEN o.elems[j] ELSE U])
    IN [h |-> h1,
        vs |-> [this |-> vec,
                other |-> [alive |-> TRUE, data |-> nd.data, size |-> Len(o.elems)]]]

\* what a caller sees of a vector
Describe(h, vc) ==
    [capacity |-> vc.data.capacity, size |-> vc.size, elems |-> Elems(h, vc)]

\* the call on the pair returned r; `other` goes out of scope: ~Vector
EndScope(r) ==
    LET d == VectorDtor(r.h, r.vc.other)
    IN [h |-> d.h, vc |-> r.vc.this, threw |-> r.threw, ub |-> r.ub \/ d.ub,
        leaked |-> r.leaked + d.leaked, realloc |-> r.realloc, old |-> r.old]

\* the numbers of the constructions that can throw in a call (0: none does)
ThrowAt(steps) == 0..(IF steps > 0 THEN steps ELSE 0)

EmplaceSteps(vc) ==
    IF vc.size = vc.data.capacity THEN 1 + TransferSteps(vc.size) ELSE 1

ReserveSteps(vc, n) == IF n <= vc.data.capacity THEN 0 ELSE TransferSteps(vc.size)

ResizeSteps(vc, n) ==
    IF n <= vc.data.capacity THEN n - vc.size
    ELSE TransferSteps(vc.size) + (n - vc.size)

\* Addresses mean nothing beyond being equal or different, and between two
\* calls the vector's block is the only one allocated: it is renamed to
\* address 1 when a call ends (a symmetry reduction of the heap).
Renamed(h, vc) ==
    LET p == vc.data.buffer
    IN IF p = NullPtr \/ p = 1 THEN [h |-> h, vc |-> vc]
       ELSE [h |-> [h EXCEPT ![1] = h[p], ![p] = h[1]],
             vc |-> [vc EXCEPT !.data.buffer = 1]]

\* one call ends: with undefined behaviour the run is over (ub), otherwise
\* the heap and the vector are as the call left them
Step(r, rec, newpushed, newrsv) ==
    IF r.ub
    THEN /\ ub' = TRUE
         /\ last' = [NoLast EXCEPT !.op = "undefined"]
         /\ UNCHANGED <<heap, vec, policy, pushed, rsv, raw, req>>
    ELSE /\ heap' = Renamed(r.h, r.vc).h
         /\ vec' = Renamed(r.h, r.vc).vc
         /\ last' = [rec EXCEPT !.threw = r.threw, !.realloc = r.realloc,
                                !.leaked = r.leaked, !.old = r.old]
         /\ pushed' = newpushed
         /\ rsv' = newrsv
         /\ UNCHANGED <<policy, ub, raw, req>>

Idle == ~ub /\ last = NoLast

\* between two calls, and not in the middle of "Reserve(n), PushBack n times"
Free == Idle /\ rsv = RsvOff

Init ==
    /\ heap = [b \in Blocks |-> [alloc |-> FALSE, cells |-> <<>>]]
    /\ vec = DefaultCtor
    /\ policy \in {"move", "copy"}
    /\ ub = FALSE
    /\ last = NoLast
    /\ pushed = PushedNew
    /\ rsv = RsvOff
    /\ raw = NoRaw
    /\ req = NoReq

\* the caller goes on to its next call
Return ==
    /\ ~ub /\ last # NoLast
    /\ last' = NoLast
    /\ rsv' \in {rsv, RsvOff}
    /\ UNCHANGED <<heap, vec, policy, ub, pushed, raw, req>>

CallDefaultCtor ==
    /\ Free /\ ~vec.alive
    /\ Step(Done(heap, DefaultCtor, 0, FALSE),
            [NoLast EXCEPT !.op = "Vector()"], PushedNew, RsvOff)

CallSizedCtor(n, k) ==
    /\ Free /\ ~vec.alive
    /\ Step(SizedCtor(heap, n, k),
            [NoLast EXCEPT !.op = "Vector(size)", !.n = n], PushedOff, RsvOff)

CallCopyCtor(o, k) ==
    /\ Free /\ ~vec.alive
    /\ LET in == Operands(o)
           r == CopyCtor(in.h, in.vs.other, k)
       IN Step(EndScope([r EXCEPT !.vc = [this |-> r.vc, other |-> in.vs.other]]),
               [NoLast EXCEPT !.op = "Vector(const&)", !.other = o,
                              !.after = Describe(r.h, in.vs.other)],
               PushedOff, RsvOff)

CallMoveCtor(o) ==
    /\ Free /\ ~vec.alive
    /\ LET in == Operands(o)
           r == MoveCtor(in.h, in.vs, "this", "other")
       IN Step(EndScope(r),
               [NoLast EXCEPT !.op = "Vector(&&)", !.other = o,
                              !.after = Describe(r.h, r.vc.other)],
               PushedOff, RsvOff)

CallDtor ==
    /\ Free /\ vec.alive
    /\ Step(VectorDtor(heap, vec), [NoLast EXCEPT !.op = "~Vector"], PushedOff, RsvOff)

CallCopyAssign(o, k) ==
    /\ Free /\ vec.alive
    /\ LET in == Operands(o)
           r == CopyAssign(in.h, in.vs, "this", "other", k)
       IN Step(EndScope(r),
               [NoLast EXCEPT !.op = "operator=(const&)", !.other = o,
                              !.after = Describe(r.h, r.vc.other)],
               PushedOff, RsvOff)

CallMoveAssign(o) ==
    /\ Free /\ vec.alive
    /\ LET in == Operands(o)
           r == MoveAssign(in.h, in.vs, "this", "other")
       IN Step(EndScope(r),
               [NoLast EXCEPT !.op = "operator=(&&)", !.other = o,
                              !.after = Describe(r.h, r.vc.other)],
               PushedOff, RsvOff)

\* v = std::move(v)
CallMoveAssignSelf ==
    /\ Free /\ vec.alive
    /\ LET r == MoveAssign(heap, [this |-> vec], "this", "this")
       IN Step([r EXCEPT !.vc = r.vc.this],
               [NoLast EXCEPT !.op = "operator=(&&) self"], PushedOff, RsvOff)

CallSwap(o) ==
    /\ Free /\ vec.alive
    /\ LET in == Operands(o)
           r == Swap(in.h, in.vs, "this", "other")
       IN Step(EndScope(r),
               [NoLast EXCEPT !.op = "Swap", !.other = o,
                              !.after = Describe(r.h, r.vc.other)],
               PushedOff, RsvOff)

CallPushBack(arg, k) ==
    /\ Idle /\ vec.alive
    /\ vec.size = vec.data.capacity => GrownCapacity(vec) <= MaxCap
    /\ LET r == PushBack(heap, vec, arg, k)
           value == ArgValue(Cells(heap, vec.data.buffer), arg)
       IN Step(r,
               [NoLast EXCEPT !.op = "PushBack", !.i = vec.size, !.arg = arg],
               IF pushed.on /\ r.threw = "none"
               THEN [pushed EXCEPT !.seq = Append(@, value)]
               ELSE pushed,
               IF rsv.left > 1 THEN [rsv EXCEPT !.left = @ - 1] ELSE RsvOff)

CallInsert(i, arg, k) ==
    /\ Free /\ vec.alive
    /\ vec.size = vec.data.capacity => GrownCapacity(vec) <= MaxCap
    /\ Step(Insert(heap, vec, i, arg, k),
            [NoLast EXCEPT !.op = "Insert", !.i = i, !.arg = arg], PushedOff, RsvOff)

CallErase(i) ==
    /\ Free /\ vec.alive
    /\ Step(Erase(heap, vec, i), [NoLast EXCEPT !.op = "Erase", !.i = i],
            PushedOff, RsvOff)

CallPopBack ==
    /\ Free /\ vec.alive /\ vec.size > 0
    /\ Step(PopBack(heap, vec), [NoLast EXCEPT !.op = "PopBack"], PushedOff, RsvOff)

CallReserve(n, k) ==
    /\ Free /\ vec.alive
    /\ LET r == Reserve(heap, vec, n, k)
       IN Step(r, [NoLast EXCEPT !.op = "Reserve", !.n = n], PushedOff,
               IF r.threw = "none" /\ n > 0
               THEN [left |-> n, empty |-> vec.size = 0]
               ELSE RsvOff)

CallResize(n, k) ==
    /\ Free /\ vec.alive
    /\ Step(Resize(heap, vec, n, k), [NoLast EXCEPT !.op = "Resize", !.n = n],
            PushedOff, RsvOff)

Next ==
    \/ Return
    \/ CallDefaultCtor
    \/ \E n \in 0..MaxCap : \E k \in ThrowAt(n) : CallSizedCtor(n, k)
    \/ \E o \in Others : \E k \in ThrowAt(Len(o.elems)) : CallCopyCtor(o, k)
    \/ \E o \in Others : CallMoveCtor(o)
    \/ CallDtor
    \/ \E o \in Others : \E k \in ThrowAt(Len(o.elems)) : CallCopyAssign(o, k)
    \/ \E o \in Others : CallMoveAssign(o)
    \/ CallMoveAssignSelf
    \/ \E o \in Others : CallSwap(o)
    \/ \E arg \in Args, k \in ThrowAt(EmplaceSteps(vec)) : CallPushBack(arg, k)
    \/ \E i \in 0..vec.size, arg \in Args, k \in ThrowAt(EmplaceSteps(vec)) :
          CallInsert(i, arg, k)
    \/ \E i \in 0..(vec.size - 1) : CallErase(i)
    \/ CallPopBack
    \/ \E n \in 0..MaxCap : \E k \in ThrowAt(ReserveSteps(vec, n)) : CallReserve(n, k)
    \/ \E n \in 0..MaxCap : \E k \in ThrowAt(ResizeSteps(vec, n)) : CallResize(n, k)

Spec == Init /\ [][Next]_vars

\* ------------------------------------------------------------------------
\* A program that uses RawMemory alone: the objects of RawNames are
\* constructed with a capacity, move-constructed, move-assigned (also to
\* themselves), swapped and destroyed, in any order.
\*   raw.objs   the objects: [alive, data]
\*   raw.op     the member function that has just run
\*   raw.from   the object it moved from ("none": none)
\*   raw.freed  the blocks it passed to operator delete
\* operator delete on a block that is not allocated is undefined (ub).
\* ------------------------------------------------------------------------

RawNames == {"a", "b", "c"}
MaxRaw == 2       \* RawMemory objects are constructed with capacity 0..MaxRaw

DeadRaw == [alive |-> FALSE, data |-> EmptyRawMemory]

\* operator delete(p) on a block already deleted
DoubleDelete(h, p) == p # NullPtr /\ ~h[p].alloc

RawAfter(objs, op, from, freed) ==
    [objs |-> objs, op |-> op, from |-> from, freed |-> freed]

RawInit ==
    /\ heap = [b \in Blocks |-> [alloc |-> FALSE, cells |-> <<>>]]
    /\ raw = RawAfter([x \in RawNames |-> DeadRaw], "none", "none", 0)
    /\ vec = DeadVector
    /\ policy = "move"
    /\ ub = FALSE
    /\ last = NoLast
    /\ pushed = PushedOff
    /\ rsv = RsvOff
    /\ req = NoReq

\* RawMemory x(n)
RawConstruct(x, n) ==
    /\ ~ub /\ ~raw.objs[x].alive
    /\ n = 0 \/ \E b \in Blocks : ~heap[b].alloc
    /\ LET nd == RawMemoryOfCapacity(heap, n)
       IN /\ heap' = nd.h
          /\ raw' = RawAfter([raw.objs EXCEPT ![x] = [alive |-> TRUE, data |-> nd.data]],
                             "RawMemory(capacity)", "none", 0)
    /\ UNCHANGED <<vec, policy, ub, last, pushed, rsv, req>>

\* RawMemory x(std::move(y))
RawMoveConstruct(x, y) ==
    /\ ~ub /\ x # y /\ ~raw.objs[x].alive /\ raw.objs[y].alive
    /\ LET mc == RawMemoryMoveCtor(raw.objs[y].data)
       IN raw' = RawAfter([raw.objs EXCEPT ![x] = [alive |-> TRUE, data |-> mc.self],
                                           ![y].data = mc.other],
                          "RawMemory(&&)", y, 0)
    /\ UNCHANGED <<heap, vec, policy, ub, last, pushed, rsv, req>>

\* x = std::move(y); x = y is the self-assignment
RawMoveAssign(x, y) ==
    /\ ~ub /\ raw.objs[x].alive /\ raw.objs[y].alive
    /\ LET old == raw.objs[x].data.buffer
           ma == RawMemoryMoveAssign(heap, raw.objs[x].data, raw.objs[y].data, x = y)
       IN /\ heap' = ma.h
          /\ ub' = (x # y /\ DoubleDelete(heap, old))
          /\ raw' = RawAfter(IF x = y THEN raw.objs
                             ELSE [raw.objs EXCEPT ![x].data = ma.this,
                                                   ![y].data = ma.other],
                             "operator=(&&)", IF x = y THEN "none" ELSE y,
                             IF x # y /\ old # NullPtr THEN 1 ELSE 0)
    /\ UNCHANGED <<vec, policy, last, pushed, rsv, req>>

\* x.Swap(y)
RawSwapObjects(x, y) ==
    /\ ~ub /\ x # y /\ raw.objs[x].alive /\ raw.objs[y].alive
    /\ LET sw == RawMemorySwap(raw.objs[x].data, raw.objs[y].data)
       IN raw' = RawAfter([raw.objs EXCEPT ![x].data = sw.this, ![y].data = sw.other],
                          "Swap", "none", 0)
    /\ UNCHANGED <<heap, vec, policy, ub, last, pushed, rsv, req>>

\* x goes out of scope
RawDestruct(x) ==
    /\ ~ub /\ raw.objs[x].alive
    /\ heap' = RawMemoryDtor(heap, raw.objs[x].data)
    /\ ub' = DoubleDelete(heap, raw.objs[x].data.buffer)
    /\ raw' = RawAfter([raw.objs EXCEPT ![x] = DeadRaw], "~RawMemory", "none",
                       IF raw.objs[x].data.buffer # NullPtr THEN 1 ELSE 0)
    /\ UNCHANGED <<vec, policy, last, pushed, rsv, req>>

RawNext ==
    \/ \E x \in RawNames, n \in 0..MaxRaw : RawConstruct(x, n)
    \/ \E x \in RawNames, y \in RawNames : RawMoveConstruct(x, y)
    \/ \E x \in RawNames, y \in RawNames : RawMoveAssign(x, y)
    \/ \E x \in RawNames, y \in RawNames : RawSwapObjects(x, y)
    \/ \E x \in RawNames : RawDestruct(x)

RawSpec == RawInit /\ [][RawNext]_vars

\* ------------------------------------------------------------------------
\* One allocation request in the arithmetic of std::size_t, here WordBits
\* bits wide: RawMemory(capacity) asked by a caller (Vector(size), Reserve
\* and Resize pass their argument on as it is), or the RawMemory that
\* ReallocateAndEmbed asks for a vector of size n.
\*   req.n         the capacity asked, or the size of the vector that grows
\*   req.size_of   sizeof(T)
\*   req.capacity  capacity_ of the RawMemory constructed
\*   req.bytes     the argument of operator new
\*   req.null      buffer_ is nullptr
\* ------------------------------------------------------------------------

WordBits == 4     \* the width of std::size_t in the model
Word == 2 ^ WordBits
SizesOfT == {1, 2, 4, 8}

\* n * sizeof(T), line 81
AllocateBytes(n, size_of) == (n * size_of) % Word

\* size_ == 0 ? 1 : size_ * 2, line 294
GrownCapacityWord(size) == IF size = 0 THEN 1 ELSE (size * 2) % Word

\* RawMemory(capacity): buffer_(Allocate(capacity)), capacity_(capacity)
RawMemoryWord(r, capacity) ==
    [r EXCEPT !.phase = "constructed",
              !.capacity = capacity,
              !.null = (capacity = 0),
              !.bytes = IF capacity = 0 THEN 0 ELSE AllocateBytes(capacity, r.size_of)]

AllocInit ==
    /\ req \in [phase : {"asked"},
                by : {"RawMemory(capacity)", "ReallocateAndEmbed"},
                n : 0..(Word - 1), size_of : SizesOfT,
                capacity : {0}, bytes : {0}, null : {TRUE}]
    /\ heap = [b \in Blocks |-> [alloc |-> FALSE, cells |-> <<>>]]
    /\ vec = DeadVector
    /\ policy = "move"
    /\ ub = FALSE
    /\ last = NoLast
    /\ pushed = PushedOff
    /\ rsv = RsvOff
    /\ raw = NoRaw

ConstructRawMemory ==
    /\ req.phase = "asked" /\ req.by = "RawMemory(capacity)"
    /\ req' = RawMemoryWord(req, req.n)
    /\ UNCHANGED <<heap, vec, policy, ub, last, pushed, rsv, raw>>

GrowRawMemory ==
    /\ req.phase = "asked" /\ req.by = "ReallocateAndEmbed"
    /\ req' = RawMemoryWord(req, GrownCapacityWord(req.n))
    /\ UNCHANGED <<heap, vec, policy, ub, last, pushed, rsv, raw>>

AllocNext == ConstructRawMemory \/ GrowRawMemory

AllocSpec == AllocInit /\ [][AllocNext]_vars

\* ------------------------------------------------------------------------
\* What the claims speak of
\* ------------------------------------------------------------------------

\* exactly the slots [0, size) of the vector's storage hold objects
WellFormed(h, vc) ==
    LET c == Cells(h, vc.data.buffer)
    IN /\ Len(c) = vc.data.capacity
       /\ vc.size <= vc.data.capacity
       /\ \A j \in 1..Len(c) : Live(c[j]) <=> j <= vc.size


\* a call has just returned without an exception
ReturnedNormally == ~ub /\ last.op \notin {"none", "undefined"} /\ last.threw = "none"

\* between two calls nothing is allocated but the vector's own storage
OnlyOwnStorage ==
    \A b \in Blocks : heap[b].alloc => (vec.alive /\ b = vec.data.buffer)

\* s with x inserted before the element of index i
InsertAt(s, i, x) == SubSeq(s, 1, i) \o <<x>> \o SubSeq(s, i + 1, Len(s))

\* the call that has just ended asked for more than the capacity there was
\* (after a throw the vector's size and capacity are those before the call)
Growing ==
    \/ last.op \in {"Reserve", "Resize"} /\ last.n > vec.data.capacity
    \/ last.op \in {"PushBack", "Insert"} /\ vec.size = vec.data.capacity

\* ------------------------------------------------------------------------
\* C1: in every reachable state every vector has Size() <= Capacity(): the
\* vector itself and the second operand of the call that has just returned.
\* ------------------------------------------------------------------------
C1_SizeWithinCapacity ==
    ~ub => /\ vec.alive => vec.size <= vec.data.capacity
           /\ last.after # NoAfter => last.after.size <= last.after.capacity

\* ------------------------------------------------------------------------
\* C2: whenever a public operation has returned normally, exactly the slots
\* [0, size) of the vector's storage hold live elements and no slot of
\* [size, capacity) does; and the destructor, having destroyed them, releases
\* the storage with no live element left in it.
\* ------------------------------------------------------------------------
C2_ExactlyLiveRange ==
    ReturnedNormally =>
        /\ vec.alive => WellFormed(heap, vec)
        /\ last.op = "~Vector" => last.leaked = 0 /\ OnlyOwnStorage

\* ------------------------------------------------------------------------
\* C3: Resize(n) with n > Capacity() in which the default construction of a
\* new tail element throws leaves size, capacity and the values of all the
\* elements as they were before the call, under both transfer policies.
\* ------------------------------------------------------------------------
C3_ResizeGrowthStrong ==
    [][(last'.op = "Resize" /\ last'.n > vec.data.capacity
            /\ last'.threw = "default")
        => /\ vec'.size = vec.size
           /\ vec'.data.capacity = vec.data.capacity
           /\ Elems(heap', vec') = Elems(heap, vec)]_vars

\* ------------------------------------------------------------------------
\* C4: PushBack or Insert at any index of [0, size], called with
\* size = capacity, in which the new element's constructor throws, leaves
\* size, capacity and the element values unchanged.
\* ------------------------------------------------------------------------
C4_EmplaceGrowthStrong ==
    [][(last'.op \in {"PushBack", "Insert"} /\ vec.size = vec.data.capacity
            /\ last'.threw = "new")
        => /\ vec'.size = vec.size
           /\ vec'.data.capacity = vec.data.capacity
           /\ Elems(heap', vec') = Elems(heap, vec)]_vars

C4_Witness ==
    /\ last.op = "Insert" /\ last.threw = "new"
    /\ vec.size = vec.data.capacity /\ vec.size = 2 /\ last.i = 1
    /\ Elems(heap, vec) = <<1, 2>>

\* ------------------------------------------------------------------------
\* C5: when a construction into the new buffer throws during the
\* reallocation of Reserve, of a growing Resize or of a growing Emplace,
\* every element already constructed in the new buffer is destroyed before
\* the buffer is deallocated, and the buffer is deallocated.
\* ------------------------------------------------------------------------
C5_NoLeakOnThrow ==
    (~ub /\ last.threw # "none" /\ Growing) => last.leaked = 0 /\ OnlyOwnStorage

\* ------------------------------------------------------------------------
\* C6: after a = std::move(b), a and b distinct, a has b's former capacity,
\* size and elements, b's size is zero, and a's former elements were
\* destroyed and its former storage released.
\* ------------------------------------------------------------------------
C6_MoveAssignTransfers ==
    (~ub /\ last.op = "operator=(&&)") =>
        /\ vec.data.capacity = last.other.capacity
        /\ vec.size = Len(last.other.elems)
        /\ Elems(heap, vec) = last.other.elems
        /\ last.after.size = 0
        /\ last.leaked = 0
        /\ OnlyOwnStorage

\* ------------------------------------------------------------------------
\* C7: for every vector state and every n, none of the n PushBack calls
\* that follow Reserve(n) changes the capacity.
\* ------------------------------------------------------------------------
C7_ReserveThenPushes ==
    [][(last'.op = "PushBack" /\ rsv.left > 0)
        => vec'.data.capacity = vec.data.capacity /\ ~last'.realloc]_vars

\* C7, for a vector that is empty when Reserve(n) is called
C7_ReserveOnEmptyThenPushes ==
    [][(last'.op = "PushBack" /\ rsv.left > 0 /\ rsv.empty)
        => vec'.data.capacity = vec.data.capacity /\ ~last'.realloc]_vars

\* the second of the three PushBack calls after Reserve(3) has returned
C7_Witness ==
    /\ last.op = "PushBack" /\ last.threw = "none"
    /\ rsv = [left |-> 1, empty |-> TRUE]
    /\ vec.size = 2 /\ vec.data.capacity = 3

\* ------------------------------------------------------------------------
\* C8: while nothing but PushBack has been called on a vector that started
\* empty, Size() <= Capacity() and the elements [0, Size()) are the values
\* pushed so far, in push order.
\* ------------------------------------------------------------------------
C8_PushedInOrder ==
    (~ub /\ vec.alive /\ pushed.on) =>
        /\ vec.size <= vec.data.capacity
        /\ vec.size = Len(pushed.seq)
        /\ Elems(heap, vec) = pushed.seq

\* three values pushed, the third by a reallocation
C8_Witness ==
    /\ vec.alive /\ pushed.on /\ pushed.seq = <<1, 2, 1>>
    /\ last.op = "PushBack" /\ last.realloc

\* ------------------------------------------------------------------------
\* C9: Insert(begin() + i, v) that returns makes the size one more, leaves
\* the elements before i as they were, puts v at i and every former element
\* of index j >= i at j + 1, with or without reallocation, also when v is a
\* reference to an element of the vector.
\* ------------------------------------------------------------------------
C9_InsertShifts ==
    [][(last'.op = "Insert" /\ last'.threw = "none")
        => /\ vec'.size = vec.size + 1
           /\ Elems(heap', vec') =
                  InsertAt(Elems(heap, vec), last'.i,
                           ArgValue(Cells(heap, vec.data.buffer), last'.arg))]_vars

\* v refers to the last of two elements and goes before it, by a reallocation
C9_Witness ==
    /\ last.op = "Insert" /\ last.threw = "none" /\ last.realloc
    /\ last.i = 1 /\ last.arg = [ref |-> TRUE, x |-> 1]
    /\ Elems(heap, vec) = <<1, 2, 2>>

\* ------------------------------------------------------------------------
\* C10: dst = src that returns makes dst's size and elements those of src
\* and leaves src unchanged; with src.Size() <= dst.Capacity() before, dst
\* keeps its storage and capacity and its surplus tail elements are
\* destroyed; otherwise dst is reallocated to a capacity >= src.Size().
\* ------------------------------------------------------------------------
C10_CopyAssign ==
    [][(last'.op = "operator=(const&)" /\ last'.threw = "none")
        => LET src == last'.other
               n == Len(src.elems)
               c == Cells(heap', vec'.data.buffer)
           IN /\ vec'.size = n
              /\ Elems(heap', vec') = src.elems
              /\ last'.after = [capacity |-> src.capacity, size |-> n,
                                elems |-> src.elems]
              /\ n <= vec.data.capacity =>
                    /\ ~last'.realloc
                    /\ vec'.data.capacity = vec.data.capacity
                    /\ \A j \in (n + 1)..vec.size : j <= Len(c) /\ c[j] = U
              /\ n > vec.data.capacity =>
                    last'.realloc /\ vec'.data.capacity >= n]_vars

\* a shorter source assigned to a longer destination with enough capacity
C10_Witness ==
    /\ last.op = "operator=(const&)" /\ last.threw = "none" /\ ~last.realloc
    /\ last.other.elems = <<2>> /\ vec.data.capacity = 3
    /\ Cells(heap, vec.data.buffer) = <<2, U, U>>

\* s without its element of index i
RemoveAt(s, i) == SubSeq(s, 1, i) \o SubSeq(s, i + 2, Len(s))

\* ------------------------------------------------------------------------
\* C11: Erase(begin() + i), i in [0, size), makes the size one less, leaves
\* the elements before i as they were, puts every former element of index
\* j > i at j - 1, destroys exactly one element and keeps the capacity.
\* ------------------------------------------------------------------------
C11_EraseShifts ==
    [][(last'.op = "Erase")
        => /\ vec'.size = vec.size - 1
           /\ Elems(heap', vec') = RemoveAt(Elems(heap, vec), last'.i)
           /\ vec'.data.capacity = vec.data.capacity /\ ~last'.realloc
           /\ LiveCount(heap', vec'.data.buffer)
                  = LiveCount(heap, vec.data.buffer) - 1
           /\ last'.threw = "none" /\ last'.leaked = 0]_vars

\* the middle one of three elements erased
C11_Witness ==
    /\ last.op = "Erase" /\ last.i = 1
    /\ vec.size = 2 /\ Elems(heap, vec) = <<1, 2>>

\* ------------------------------------------------------------------------
\* C12: Reserve(n) with n > Capacity() in which the copy of an element into
\* the new buffer throws leaves the vector with its original storage and
\* with size, capacity and element values as before the call.
\* ------------------------------------------------------------------------
C12_ReserveGrowthStrong ==
    [][(last'.op = "Reserve" /\ last'.threw # "none")
        => /\ last'.threw = "copy" /\ policy = "copy"
           /\ last'.n > vec.data.capacity
           /\ vec' = vec
           /\ Cells(heap', vec'.data.buffer) = Cells(heap, vec.data.buffer)
           /\ Elems(heap', vec') = Elems(heap, vec)
           /\ ~last'.realloc]_vars

\* Reserve(4) on two elements, left by an exception
C12_Witness ==
    /\ last.op = "Reserve" /\ last.threw = "copy" /\ last.n = 4
    /\ vec.data.capacity = 2 /\ Elems(heap, vec) = <<1, 2>>

\* the live RawMemory objects whose pointer is block b
Owners(b) == {x \in RawNames : raw.objs[x].alive /\ raw.objs[x].data.buffer = b}

\* ------------------------------------------------------------------------
\* C13: across any sequence of RawMemory operations every allocated block
\* is owned by exactly one object and no block that is not allocated is
\* owned or deleted (so each block is deleted exactly once), an object's
\* pointer is to a block of its capacity (null for capacity 0), and an
\* object that has just been moved from has a null pointer and capacity 0.
\* ------------------------------------------------------------------------
C13_RawOwnership ==
    raw # NoRaw =>
        /\ ~ub
        /\ \A b \in Blocks : Cardinality(Owners(b)) = IF heap[b].alloc THEN 1 ELSE 0
        /\ \A x \in RawNames :
              raw.objs[x].alive =>
                  /\ raw.objs[x].data.buffer = NullPtr <=> raw.objs[x].data.capacity = 0
                  /\ Len(Cells(heap, raw.objs[x].data.buffer)) = raw.objs[x].data.capacity
        /\ raw.from # "none" => raw.objs[raw.from].data = EmptyRawMemory

\* a = std::move(b) has released a's block and given it b's, with c alive too
C13_Witness ==
    /\ raw # NoRaw /\ raw.op = "operator=(&&)" /\ raw.from = "b" /\ raw.freed = 1
    /\ raw.objs["a"].data.capacity = 2
    /\ raw.objs["c"].alive /\ raw.objs["c"].data.capacity = 1

\* ------------------------------------------------------------------------
\* C14: in Reserve, in Resize past the capacity and in Emplace at
\* size = capacity the pre-existing elements go to the new buffer by move
\* when T is nothrow-move-constructible or not copy-constructible (every old
\* element is a moved-from object when it is destroyed) and by copy
\* otherwise (every old element still has its value when it is destroyed).
\* ------------------------------------------------------------------------
C14_TransferPolicy ==
    [][(last'.op \in {"Reserve", "Resize", "PushBack", "Insert"}
            /\ last'.realloc /\ last'.threw = "none")
        => /\ Len(last'.old) = vec.size
           /\ policy = "move" => last'.old = [j \in 1..vec.size |-> MV]
           /\ policy = "copy" => last'.old = Elems(heap, vec)]_vars

\* two elements moved to the new buffer by an Insert between them
C14_Witness ==
    /\ policy = "move" /\ last.op = "Insert" /\ last.realloc /\ last.i = 1
    /\ last.old = <<MV, MV>> /\ Elems(heap, vec) = <<1, 2, 1>>

\* the capacity of a vector of n elements grown from empty by PushBack alone
DoubledCapacity(n) == IF n = 0 THEN 0 ELSE IF n = 1 THEN 1 ELSE IF n = 2 THEN 2
                      ELSE IF n <= 4 THEN 4 ELSE 8

\* ------------------------------------------------------------------------
\* C15: a PushBack or Insert that returns has reallocated iff size was
\* capacity before it, and then the new capacity is max(1, 2 * size);
\* otherwise the capacity is the same; the capacity never decreases, also
\* when the call throws; and a vector grown from empty by PushBack alone has
\* capacity 0, 1, 2, 4, 8 for 0, 1, 2, 3..4, 5..8 elements.
\* ------------------------------------------------------------------------
C15_Doubling ==
    [][(last'.op \in {"PushBack", "Insert"})
        => /\ vec'.data.capacity >= vec.data.capacity
           /\ last'.threw = "none" =>
                 /\ last'.realloc <=> vec.size = vec.data.capacity
                 /\ last'.realloc =>
                       vec'.data.capacity = IF vec.size = 0 THEN 1 ELSE 2 * vec.size
                 /\ ~last'.realloc => vec'.data.capacity = vec.data.capacity
           /\ (pushed'.on /\ vec'.alive) =>
                 vec'.data.capacity = DoubledCapacity(vec'.size)]_vars

\* the third PushBack on an empty vector has taken the capacity from 2 to 4
C15_Witness ==
    /\ pushed.on /\ last.op = "PushBack" /\ last.realloc
    /\ vec.size = 3 /\ vec.data.capacity = 4

\* ------------------------------------------------------------------------
\* C16: Resize(n) that returns leaves size = n, the first min(old size, n)
\* elements as they were and every element from the old size on
\* value-initialized; the capacity is the same when n <= the old capacity
\* and exactly n when n is more.
\* ------------------------------------------------------------------------
C16_Resize ==
    [][(last'.op = "Resize" /\ last'.threw = "none")
        => LET n == last'.n
               old == Elems(heap, vec)
               new == Elems(heap', vec')
           IN /\ vec'.size = n
              /\ Len(new) = n
              /\ \A j \in 1..n : new[j] = IF j <= vec.size THEN old[j] ELSE DV
              /\ n <= vec.data.capacity =>
                    vec'.data.capacity = vec.data.capacity /\ ~last'.realloc
              /\ n > vec.data.capacity =>
                    vec'.data.capacity = n /\ last'.realloc]_vars

\* two elements resized to three, past the capacity of 2
C16_Witness ==
    /\ last.op = "Resize" /\ last.threw = "none" /\ last.realloc /\ last.n = 3
    /\ vec.data.capacity = 3 /\ Elems(heap, vec) = <<1, 2, DV>>
    /\ Len(last.old) = 2

\* ------------------------------------------------------------------------
\* C17: Reserve(n) that returns leaves the size and the value and order of
\* all elements as they were; with n <= Capacity() it changes nothing (same
\* storage, same capacity, every slot as it was), with n > Capacity() the
\* capacity afterwards is exactly n.
\* ------------------------------------------------------------------------
C17_ReserveFrame ==
    [][(last'.op = "Reserve" /\ last'.threw = "none")
        => /\ vec'.size = vec.size
           /\ Elems(heap', vec') = Elems(heap, vec)
           /\ last'.n <= vec.data.capacity =>
                 /\ vec' = vec /\ heap' = heap
                 /\ ~last'.realloc /\ last'.old = <<>>
           /\ last'.n > vec.data.capacity =>
                 vec'.data.capacity = last'.n /\ last'.realloc]_vars

\* two elements in a capacity of 2, reserved to 3
C17_Witness ==
    /\ last.op = "Reserve" /\ last.threw = "none" /\ last.realloc /\ last.n = 3
    /\ vec.data.capacity = 3 /\ Elems(heap, vec) = <<2, 1>>

\* ------------------------------------------------------------------------
\* C18: PushBack or Insert called with size < capacity in which the
\* construction of the new element (at the end slot, or of the temporary for
\* a position before the end) throws leaves size, capacity and all element
\* values unchanged, and no slot of index >= size holds a live element.
\* ------------------------------------------------------------------------
C18_EmbedThrowLeavesVector ==
    [][(last'.op \in {"PushBack", "Insert"} /\ vec.size < vec.data.capacity
            /\ last'.threw # "none")
        => /\ last'.threw = "new"
           /\ vec'.size = vec.size
           /\ vec'.data.capacity = vec.data.capacity
           /\ Elems(heap', vec') = Elems(heap, vec)
           /\ \A j \in 1..Len(Cells(heap', vec'.data.buffer)) :
                 j > vec'.size => ~Live(Cells(heap', vec'.data.buffer)[j])]_vars

\* C18 without its last clause: the call that throws changes no slot at all
C18_EmbedThrowChangesNothing ==
    [][(last'.op \in {"PushBack", "Insert"} /\ vec.size < vec.data.capacity
            /\ last'.threw # "none")
        => /\ last'.threw = "new"
           /\ vec' = vec
           /\ heap' = heap]_vars

\* Insert before the first of two elements in a capacity of 4, left by a throw
C18_Witness ==
    /\ last.op = "Insert" /\ last.threw = "new" /\ last.i = 0
    /\ vec.data.capacity = 4 /\ Cells(heap, vec.data.buffer) = <<1, 2, U, U>>
    /\ vec.size = 2

\* ------------------------------------------------------------------------
\* C19: for every capacity n of std::size_t a RawMemory with a non-null
\* pointer and Capacity() = n owns a block of n slots of T: the byte count
\* passed to the allocator is n * sizeof(T), not less.
\* ------------------------------------------------------------------------
C19_BlockHoldsCapacity ==
    (req # NoReq /\ req.phase = "constructed" /\ ~req.null)
        => req.bytes >= req.capacity * req.size_of

\* ------------------------------------------------------------------------
\* C20: v = std::move(v) leaves v as it was: size, capacity and element
\* values are the same afterwards, and no live element is left outside
\* [0, size).
\* ------------------------------------------------------------------------
C20_SelfMoveAssign ==
    [][(last'.op = "operator=(&&) self")
        => /\ vec'.size = vec.size
           /\ vec'.data.capacity = vec.data.capacity
           /\ Elems(heap', vec') = Elems(heap, vec)
           /\ \A j \in 1..Len(Cells(heap', vec'.data.buffer)) :
                 j > vec'.size => ~Live(Cells(heap', vec'.data.buffer)[j])]_vars

=============================================================================
